---- MODULE Spec2Model ----
(***************************************************************************)
(* Model of src/index.js: the task registry (TaskManager), the per-task    *)
(* session loop (sendMessages), the rotation policy (getNextMessage) and   *)
(* the control routes (start / stop / status).                             *)
(*                                                                         *)
(* JavaScript runs one callback at a time, so every action below is one    *)
(* run-to-completion segment of the code: from a resumed `await` (or an    *)
(* incoming request) to the next `await` (or the end of the handler).      *)
(*                                                                         *)
(* Task objects live in `heap`; the registry `tasks` maps an identifier to *)
(* a heap reference, exactly as the Map holds object references, and a     *)
(* session keeps its own reference (automationStateObj).                   *)
(*                                                                         *)
(* The durable file is `disk`: saveTasks builds its text at the call and   *)
(* the write completes in a later step; loadTasks reads and applies in two *)
(* steps of their own.  findMessageInput is modelled on its own over small *)
(* documents (`disc`).                                                      *)
(***************************************************************************)
EXTENDS Integers, Sequences, FiniteSets, TLC

(* ---------------------------- bounds ---------------------------------- *)
\* number of Start requests explored
MaxTasks == 2
\* wall-clock ticks explored (new Date() / Date.now())
MaxTime == 2
\* cap on messageRotationIndex: no new loop iteration is explored beyond it
MaxRot == 2
\* rotation policy on its own: longest template list, largest starting
\* cursor, most consecutive calls
MaxLen == 3
MaxCursor == 4
MaxCalls == 5
\* Discovery on its own: most elements in a document
MaxDoc == 2
\* file writes under way at a time, and process restarts
MaxPending == 2
MaxRestarts == 1

(* ------------------------- identifiers -------------------------------- *)
\* An identifier is a sequence of characters.  "R" abbreviates the constant
\* namespace tag 'RAGHAV-E2E-'; one hex digit abbreviates the 16 of the digest.
Chars == {"R", "r", "A", "a", "B", "b", "C"}

Upper == [c \in Chars |-> CASE c = "r" -> "R" [] c = "a" -> "A" [] c = "b" -> "B" [] OTHER -> c]

toUpperCase(s) == [i \in DOMAIN s |-> Upper[s[i]]]

\* digest('hex') yields lower-case hex digits
HexDigests == {<<"a">>, <<"b">>}

\* the digest drawn under the running clock (ClockSpec)
ClockDigests == {<<"a">>}

generateTaskId(h) == <<"R">> \o toUpperCase(h)

\* identifiers arriving in requests (:taskId): exact, other letter case, unknown
ReqIds == {<<"R", "A">>, <<"r", "a">>, <<"R", "a">>, <<"R", "B">>, <<"R", "C">>}

(* --------------------------- configs ---------------------------------- *)
\* config.messages is a newline-delimited string: modelled as its lines.
\* config.namePrefix is '' when absent.
Configs ==
    { [messages |-> <<"">>, namePrefix |-> ""],
      [messages |-> <<" Hi", " ", "Bye">>, namePrefix |-> "Mr"] }

trim(l) == CASE l = " " -> "" [] l = " Hi" -> "Hi" [] OTHER -> l

RECURSIVE filterNonBlank(_)
filterNonBlank(ls) ==
    IF ls = <<>> THEN <<>>
    ELSE IF Head(ls) # "" THEN <<Head(ls)>> \o filterNonBlank(Tail(ls))
         ELSE filterNonBlank(Tail(ls))

\* config.messages.split('\n').map(trim).filter(msg => msg), then the
\* 'Hello!' push when the list is empty
messagesListOf(config) ==
    LET l == filterNonBlank([i \in DOMAIN config.messages |-> trim(config.messages[i])])
    IN IF Len(l) = 0 THEN <<"Hello!">> ELSE l

\* `${config.namePrefix} ${baseMessage}` or baseMessage
messageToSend(config, baseMessage) ==
    IF config.namePrefix # "" THEN <<config.namePrefix, " ", baseMessage>>
    ELSE <<baseMessage>>

(* ------------------------ rotation policy ----------------------------- *)
\* getNextMessage storing the cursor already reduced modulo the list length
getNextMessageStoredMod(messages, idx) ==
    IF Len(messages) = 0
    THEN [message |-> "Hello!", index |-> idx]
    ELSE [message |-> messages[(idx % Len(messages)) + 1],
          index |-> (idx + 1) % Len(messages)]

\* getNextMessage(messages, automationStateObj): the message returned and
\* the value of automationStateObj.messageRotationIndex afterwards
getNextMessage(messages, idx) ==
    IF Len(messages) = 0
    THEN [message |-> "Hello!", index |-> idx]
    ELSE [message |-> messages[(idx % Len(messages)) + 1], index |-> idx + 1]

(* ---------------------------- state ----------------------------------- *)
VARIABLES
    tasks,   \* taskManager.tasks: identifier -> heap reference
    heap,    \* the PersistentAutomationState objects, by reference
    sess,    \* one sendMessages activation per object: locals and position
    sent,    \* per session, the messages whose submission completed
    stopAt,  \* per session, what the first Stop that hit its task found
    now,     \* the wall clock
    resp,    \* the last response of the control surface
    rot,     \* a run of the rotation policy on its own (RotSpec)
    disk,    \* automation_tasks.json, the writes under way and the load
    disc     \* a run of findMessageInput on its own (DiscSpec)

vars == <<tasks, heap, sess, sent, stopAt, now, resp, rot, disk, disc>>

\* new PersistentAutomationState(taskId)
PersistentAutomationState(taskId) ==
    [taskId |-> taskId, running |-> FALSE, messageCount |-> 0, startTime |-> -1,
     config |-> [messages |-> <<>>, namePrefix |-> ""], lastUpdated |-> now,
     processId |-> <<>>, messageRotationIndex |-> 0]

\* Object.assign(task, updates)
assign(task, updates) ==
    [f \in DOMAIN task |-> IF f \in DOMAIN updates THEN updates[f] ELSE task[f]]

\* updateTask merging the fields into every task of the registry
updateTaskAll(hp, taskId, updates) ==
    IF taskId \in DOMAIN tasks
    THEN [r \in DOMAIN hp |-> assign(assign(hp[r], updates), [lastUpdated |-> now])]
    ELSE hp

\* TaskManager.updateTask: the heap afterwards
updateTask(hp, taskId, updates) ==
    IF taskId \in DOMAIN tasks
    THEN [hp EXCEPT ![tasks[taskId]] = assign(assign(@, updates), [lastUpdated |-> now])]
    ELSE hp

\* getTask finding the task whatever the letter case of the identifier
getTaskAnyCase(hp, taskId) ==
    [r \in DOMAIN hp |->
        IF \E tid \in DOMAIN tasks : tasks[tid] = r /\ toUpperCase(tid) = toUpperCase(taskId)
        THEN assign(hp[r], [lastUpdated |-> now])
        ELSE hp[r]]

\* TaskManager.getTask: the heap afterwards (lastUpdated refreshed on a hit)
getTask(hp, taskId) ==
    IF taskId \in DOMAIN tasks
    THEN [hp EXCEPT ![tasks[taskId]] = assign(@, [lastUpdated |-> now])]
    ELSE hp

(* --------------------------- durable file ----------------------------- *)
\* Date.prototype.toJSON (an ISO string) and new Date(string)
toISOString(t) == <<"T", t>>

parseDate(str) == str[2]

\* JSON.stringify of one task: every field is an own enumerable property;
\* lastUpdated is the only Date (startTime is the number Date.now() gave)
toJSON(task) == [task EXCEPT !.lastUpdated = toISOString(@)]

\* JSON.stringify(Object.fromEntries(this.tasks)), taken when saveTasks is
\* called; orig remembers the objects the text was made from
Snapshot(tk, hp) ==
    [json |-> [id \in DOMAIN tk |-> toJSON(hp[tk[id]])],
     orig |-> [id \in DOMAIN tk |-> hp[tk[id]]]]

\* no file, which loadTasks treats like a file without tasks (ENOENT is
\* caught and logged at line 55)
NoFile == [json |-> << >>, orig |-> << >>]

\* disk.writable: whether fs.writeFile succeeds; disk.file: the content of
\* the file; disk.pending: the writes started and not yet completed;
\* disk.newest: the text of the write started last; disk.load: where the
\* loadTasks of the constructor is, and disk.data what it read;
\* disk.boot: the file as the running process found it; disk.restarts: the
\* number of processes that have exited.
\* The state after construction with storage that rejects every write and
\* holds no file: loadTasks has nothing to recover
NoDisk ==
    [writable |-> FALSE, file |-> NoFile, pending |-> {}, newest |-> NoFile,
     load |-> "done", data |-> NoFile, boot |-> NoFile, restarts |-> 0]

\* TaskManager.saveTasks (lines 60-67): the text is built at the call, the
\* write completes later; a rejected write is logged and changes nothing
saveTasks(d, tk, hp) ==
    IF d.writable
    THEN [d EXCEPT !.pending = @ \cup {Snapshot(tk, hp)}, !.newest = Snapshot(tk, hp)]
    ELSE d

\* getTask and updateTask leaving the file alone
saveNever(d, taskId, hp) == d

\* the saveTasks call of getTask (line 78) and of updateTask (line 88),
\* made only when the identifier is a key of the registry
saveIfPresent(d, taskId, hp) ==
    IF taskId \in DOMAIN tasks THEN saveTasks(d, tasks, hp) ELSE d

\* identifiers the file holds or held when the process started
StoredIds == DOMAIN disk.file.json \cup DOMAIN disk.boot.json

NoResp == [op |-> "none"]

NoStop == [count |-> -1, inflight |-> FALSE]

NoRot == [T |-> <<>>, c |-> 0, cursor |-> 0, out |-> <<>>]

\* no Discovery under way
NoDisc ==
    [doc |-> <<>>, idx |-> 0, phase |-> "idle", elements |-> <<>>, result |-> 0,
     failed |-> FALSE]

Init ==
    /\ tasks = << >>
    /\ heap = << >>
    /\ sess = << >>
    /\ sent = << >>
    /\ stopAt = << >>
    /\ now = 0
    /\ resp = NoResp
    /\ rot = NoRot
    /\ disk = NoDisk
    /\ disc = NoDisc

(* ------------------------ control surface ----------------------------- *)
\* startAutomationTask(config), up to the first await of sendMessages
\* (puppeteer.launch); h is the digest that generateTaskId computes.
\* addTask is Map.set: it replaces whatever the identifier mapped to.
startAutomationTask(h, config) ==
    LET taskId == generateTaskId(h)
        ref == Len(heap) + 1
        automationState ==
            assign(PersistentAutomationState(taskId),
                   [running |-> TRUE, startTime |-> now, config |-> config,
                    processId |-> taskId])
    IN /\ Len(heap) < MaxTasks
       /\ heap' = Append(heap, automationState)
       /\ tasks' = [i \in DOMAIN tasks \cup {taskId} |->
                       IF i = taskId THEN ref ELSE tasks[i]]
       /\ sess' = Append(sess, [pc |-> "launch", browser |-> "null", messagesSent |-> 0,
                                messagesList |-> <<>>, baseMessage |-> "",
                                exit |-> "none", attempts |-> 0,
                                flagWrites |-> 0, finalWrites |-> 0])
       /\ sent' = Append(sent, <<>>)
       /\ stopAt' = Append(stopAt, NoStop)
       /\ resp' = [op |-> "start", status |-> "started", task_id |-> taskId]
       /\ disk' = saveTasks(disk, tasks', heap')
       /\ UNCHANGED <<now, rot, disc>>

\* POST /start_automation with an identifier that is new: the digest of
\* fresh random material is taken not to repeat
Start(h, config) ==
    /\ generateTaskId(h) \notin DOMAIN tasks \cup StoredIds
    /\ startAutomationTask(h, config)

\* stopAutomationTask(taskId), as called by POST /api/stop_automation/:taskId
StopHeap(taskId) ==
    IF taskId \in DOMAIN tasks
    THEN updateTask([getTask(heap, taskId) EXCEPT ![tasks[taskId]].running = FALSE],
                    taskId, [running |-> FALSE])
    ELSE heap

Stop(taskId) ==
    /\ heap' = StopHeap(taskId)
    /\ resp' = IF taskId \in DOMAIN tasks
               THEN [op |-> "stop", code |-> 200, status |-> "stopped"]
               ELSE [op |-> "stop", code |-> 404, status |-> "error"]
    /\ stopAt' = IF taskId \in DOMAIN tasks /\ stopAt[tasks[taskId]] = NoStop
                 THEN [stopAt EXCEPT ![tasks[taskId]] =
                          [count |-> heap[tasks[taskId]].messageCount,
                           inflight |-> sess[tasks[taskId]].pc = "submitting"]]
                 ELSE stopAt
    /\ disk' = saveIfPresent(saveIfPresent(disk, taskId, getTask(heap, taskId)),
                             taskId, heap')
    /\ UNCHANGED <<tasks, sess, sent, now, rot, disc>>

\* GET /api/get_status/:taskId
ApiStatusResp(taskId) ==
    IF taskId \in DOMAIN tasks
    THEN [op |-> "poll", code |-> 200,
          status |-> IF heap[tasks[taskId]].running THEN "running" ELSE "stopped",
          task_id |-> heap[tasks[taskId]].taskId]
    ELSE [op |-> "poll", code |-> 404, status |-> "Task not found"]

ApiGetStatus(taskId) ==
    /\ heap' = getTask(heap, taskId)
    /\ resp' = ApiStatusResp(taskId)
    /\ disk' = saveIfPresent(disk, taskId, heap')
    /\ UNCHANGED <<tasks, sess, sent, stopAt, now, rot, disc>>

\* GET /status/:taskId.  `task` is declared const, so the assignment
\* `task = foundTask` of the case-insensitive fallback throws a TypeError,
\* which the framework answers with a 500.
StatusPageResp(taskId) ==
    IF taskId \in DOMAIN tasks
    THEN [op |-> "page", code |-> 200, status |-> "status.html"]
    ELSE IF \E tid \in DOMAIN tasks : toUpperCase(tid) = toUpperCase(taskId)
         THEN [op |-> "page", code |-> 500, status |-> "TypeError"]
         ELSE [op |-> "page", code |-> 404, status |-> "task_not_found.html"]

StatusPage(taskId) ==
    /\ heap' = getTask(heap, taskId)
    /\ resp' = StatusPageResp(taskId)
    /\ disk' = saveIfPresent(disk, taskId, heap')
    /\ UNCHANGED <<tasks, sess, sent, stopAt, now, rot, disc>>

\* the passage of time between callbacks
Tick ==
    /\ now < MaxTime
    /\ now' = now + 1
    /\ UNCHANGED <<tasks, heap, sess, sent, stopAt, resp, rot, disk, disc>>

(* ------------------------- the session -------------------------------- *)
\* sendMessages(config, automationStateObj, processId).  Session s works on
\* the object heap[s]; its registry writes go through updateTask under
\* automationStateObj.taskId.  page.waitForTimeout is a plain timer and does
\* not reject; every other driver call may resolve or reject.
\* Besides the locals, a session record counts the submission attempts it
\* started (attempts), the registry updates carrying running = false it
\* issued (flagWrites) and, among them, the final ones of the finally block
\* (finalWrites).
Sessions == 1..Len(sess)

At(s, pc) == s \in Sessions /\ sess[s].pc = pc

\* markStopped with the flag written the wrong way round
markStoppedTrue(hp, s) == updateTask(hp, hp[s].taskId, [running |-> TRUE])

\* markStopped left out
markStoppedMissing(hp, s) == hp

\* lines 386-389 (catch) and 314-317 (input not found): updateTask, return 0
markStopped(hp, s) == updateTask(hp, hp[s].taskId, [running |-> FALSE])

\* finalUpdate writing the return value of the fatal path (0) as the count
finalUpdateZero(hp, s) ==
    updateTask(hp, hp[s].taskId, [running |-> FALSE, messageCount |-> 0])

\* lines 399-403: the final update of the finally block
finalUpdate(hp, s) ==
    updateTask(hp, hp[s].taskId,
               [running |-> FALSE, messageCount |-> hp[s].messageCount])

\* LoopTop as a do-while: the first iteration does not look at the flag
LoopTopDoWhile(s, hp, ss) ==
    IF hp[s].running \/ ss[s].attempts = 0
    THEN LET r == getNextMessage(ss[s].messagesList, hp[s].messageRotationIndex)
         IN /\ heap' = [hp EXCEPT ![s].messageRotationIndex = r.index]
            /\ sess' = [ss EXCEPT ![s].pc = "submitting",
                                  ![s].baseMessage = r.message,
                                  ![s].attempts = @ + 1]
    ELSE /\ heap' = hp
         /\ sess' = [ss EXCEPT ![s].pc = "closing", ![s].exit = "stopped"]

\* LoopTop that, once stopped, sleeps and looks again instead of leaving
LoopTopNoBreak(s, hp, ss) ==
    IF hp[s].running
    THEN LET r == getNextMessage(ss[s].messagesList, hp[s].messageRotationIndex)
         IN /\ heap' = [hp EXCEPT ![s].messageRotationIndex = r.index]
            /\ sess' = [ss EXCEPT ![s].pc = "submitting",
                                  ![s].baseMessage = r.message,
                                  ![s].attempts = @ + 1]
    ELSE /\ heap' = hp
         /\ sess' = [ss EXCEPT ![s].pc = "recover"]

\* line 330-333: the loop condition and, when it holds, getNextMessage;
\* otherwise `return messagesSent` and on to browser.close() in finally
LoopTop(s, hp, ss) ==
    IF hp[s].running
    THEN LET r == getNextMessage(ss[s].messagesList, hp[s].messageRotationIndex)
         IN /\ heap' = [hp EXCEPT ![s].messageRotationIndex = r.index]
            /\ sess' = [ss EXCEPT ![s].pc = "submitting",
                                  ![s].baseMessage = r.message,
                                  ![s].attempts = @ + 1]
    ELSE /\ heap' = hp
         /\ sess' = [ss EXCEPT ![s].pc = "closing", ![s].exit = "stopped"]

\* the explored part of the loop: the cursor is capped at MaxRot
MayIterate(s) == heap[s].running => heap[s].messageRotationIndex < MaxRot

\* setupBrowser resolves (line 267)
LaunchOk(s) ==
    /\ At(s, "launch")
    /\ sess' = [sess EXCEPT ![s].pc = "navigate", ![s].browser = "open"]
    /\ UNCHANGED <<tasks, heap, sent, stopAt, now, resp, rot, disk, disc>>

\* LaunchFail returning from the catch without the final update
LaunchFailNoFinal(s) ==
    /\ At(s, "launch")
    /\ heap' = markStopped(heap, s)
    /\ sess' = [sess EXCEPT ![s].pc = "done", ![s].exit = "fatal",
                            ![s].flagWrites = @ + 1]
    /\ disk' = saveIfPresent(disk, heap[s].taskId, heap')
    /\ UNCHANGED <<tasks, sent, stopAt, now, resp, rot, disc>>

\* setupBrowser rejects: catch, then finally with browser = null
LaunchFail(s) ==
    /\ At(s, "launch")
    /\ heap' = finalUpdate(markStopped(heap, s), s)
    /\ sess' = [sess EXCEPT ![s].pc = "done", ![s].exit = "fatal",
                            ![s].flagWrites = @ + 2, ![s].finalWrites = @ + 1]
    /\ disk' = saveIfPresent(saveIfPresent(disk, heap[s].taskId, markStopped(heap, s)),
                             heap[s].taskId, heap')
    /\ UNCHANGED <<tasks, sent, stopAt, now, resp, rot, disc>>

\* newPage, setViewport, goto, setCookie, goto all resolve (lines 268-310)
NavigateOk(s) ==
    /\ At(s, "navigate")
    /\ sess' = [sess EXCEPT ![s].pc = "searching"]
    /\ UNCHANGED <<tasks, heap, sent, stopAt, now, resp, rot, disk, disc>>

\* one of them rejects: catch, then finally awaits browser.close()
NavigateFail(s) ==
    /\ At(s, "navigate")
    /\ heap' = markStopped(heap, s)
    /\ sess' = [sess EXCEPT ![s].pc = "closing", ![s].exit = "fatal",
                            ![s].flagWrites = @ + 1]
    /\ disk' = saveIfPresent(disk, heap[s].taskId, heap')
    /\ UNCHANGED <<tasks, sent, stopAt, now, resp, rot, disc>>

\* findMessageInput returns an element (line 312), lines 320-333 follow
DiscoveryFound(s) ==
    /\ At(s, "searching")
    /\ MayIterate(s)
    /\ LoopTop(s, heap,
               [sess EXCEPT ![s].messagesList = messagesListOf(heap[s].config)])
    /\ UNCHANGED <<tasks, sent, stopAt, now, resp, rot, disk, disc>>

\* findMessageInput returns null (lines 314-318)
DiscoveryNotFound(s) ==
    /\ At(s, "searching")
    /\ heap' = markStopped(heap, s)
    /\ sess' = [sess EXCEPT ![s].pc = "closing", ![s].exit = "notfound",
                            ![s].flagWrites = @ + 1]
    /\ disk' = saveIfPresent(disk, heap[s].taskId, heap')
    /\ UNCHANGED <<tasks, sent, stopAt, now, resp, rot, disc>>

\* the submission resolves (lines 337-375, up to the inter-message delay)
SubmitOk(s) ==
    /\ At(s, "submitting")
    /\ LET n == sess[s].messagesSent + 1
       IN /\ heap' = updateTask([heap EXCEPT ![s].messageCount = n],
                                heap[s].taskId, [messageCount |-> n])
          /\ sess' = [sess EXCEPT ![s].messagesSent = n, ![s].pc = "delay"]
    /\ sent' = [sent EXCEPT ![s] = Append(@, messageToSend(heap[s].config, sess[s].baseMessage))]
    /\ disk' = saveIfPresent(disk, heap[s].taskId, heap')
    /\ UNCHANGED <<tasks, stopAt, now, resp, rot, disc>>

\* SubmitFail with the rejection treated as fatal
SubmitFailFatal(s) ==
    /\ At(s, "submitting")
    /\ heap' = markStopped(heap, s)
    /\ sess' = [sess EXCEPT ![s].pc = "closing", ![s].exit = "fatal",
                            ![s].flagWrites = @ + 1]
    /\ disk' = saveIfPresent(disk, heap[s].taskId, heap')
    /\ UNCHANGED <<tasks, sent, stopAt, now, resp, rot, disc>>

\* a step of the submission rejects (lines 377-380)
SubmitFail(s) ==
    /\ At(s, "submitting")
    /\ sess' = [sess EXCEPT ![s].pc = "recover"]
    /\ UNCHANGED <<tasks, heap, sent, stopAt, now, resp, rot, disk, disc>>

\* page.waitForTimeout(delay * 1000) is over (line 375), back to line 330
DelayDone(s) ==
    /\ At(s, "delay")
    /\ MayIterate(s)
    /\ LoopTop(s, heap, sess)
    /\ UNCHANGED <<tasks, sent, stopAt, now, resp, rot, disk, disc>>

\* page.waitForTimeout(5000) is over (line 379), back to line 330
RecoverDone(s) ==
    /\ At(s, "recover")
    /\ MayIterate(s)
    /\ LoopTop(s, heap, sess)
    /\ UNCHANGED <<tasks, sent, stopAt, now, resp, rot, disk, disc>>

\* browser.close() resolves or rejects (ignored), then the final update
CloseDone(s) ==
    /\ At(s, "closing")
    /\ \E closed \in BOOLEAN :
          sess' = [sess EXCEPT ![s].pc = "done",
                               ![s].browser = IF closed THEN "closed" ELSE "closeFailed",
                               ![s].flagWrites = @ + 1, ![s].finalWrites = @ + 1]
    /\ heap' = finalUpdate(heap, s)
    /\ disk' = saveIfPresent(disk, heap[s].taskId, heap')
    /\ UNCHANGED <<tasks, sent, stopAt, now, resp, rot, disc>>

SessionStep(s) ==
    \/ LaunchOk(s)
    \/ LaunchFail(s)
    \/ NavigateOk(s)
    \/ NavigateFail(s)
    \/ DiscoveryFound(s)
    \/ DiscoveryNotFound(s)
    \/ SubmitOk(s)
    \/ SubmitFail(s)
    \/ DelayDone(s)
    \/ RecoverDone(s)
    \/ CloseDone(s)

Next ==
    \/ \E h \in HexDigests, config \in Configs : Start(h, config)
    \/ \E taskId \in ReqIds : Stop(taskId)
    \/ \E taskId \in ReqIds : ApiGetStatus(taskId)
    \/ \E taskId \in ReqIds : StatusPage(taskId)
    \/ \E s \in 1..MaxTasks : SessionStep(s)

\* every request and every session step, within one instant of the clock
Spec == Init /\ [][Next]_vars

\* the same with the clock running, for one task
ClockNext ==
    \/ \E h \in ClockDigests, config \in Configs : Start(h, config)
    \/ \E taskId \in ReqIds : Stop(taskId)
    \/ \E taskId \in ReqIds : ApiGetStatus(taskId)
    \/ \E taskId \in ReqIds : StatusPage(taskId)
    \/ \E s \in 1..MaxTasks : SessionStep(s)
    \/ Tick

ClockSpec == Init /\ [][ClockNext]_vars

\* sessions and the requests that steer them, without the clock and the
\* status routes; every pending driver call of a session eventually settles
LiveNext ==
    \/ \E h \in HexDigests, config \in Configs : Start(h, config)
    \/ \E taskId \in ReqIds : Stop(taskId)
    \/ \E s \in 1..MaxTasks : SessionStep(s)

LiveSpec == Init /\ [][LiveNext]_vars /\ \A s \in 1..MaxTasks : WF_vars(SessionStep(s))

\* Start with whatever digest generateTaskId computes, a repeated one
\* included: startAutomationTask does not look the identifier up first
CollideNext ==
    \/ \E h \in HexDigests, config \in Configs : startAutomationTask(h, config)
    \/ \E taskId \in ReqIds : Stop(taskId)
    \/ \E s \in 1..MaxTasks : SessionStep(s)

CollideSpec == Init /\ [][CollideNext]_vars

(* ------------------- the rotation policy on its own ------------------- *)
Templates == {"Hi", "Bye", "Yo"}

TemplateLists == UNION {[1..n -> Templates] : n \in 0..MaxLen}

InitRot ==
    /\ tasks = << >>
    /\ heap = << >>
    /\ sess = << >>
    /\ sent = << >>
    /\ stopAt = << >>
    /\ now = 0
    /\ resp = NoResp
    /\ \E T \in TemplateLists, c \in 0..MaxCursor :
          rot = [T |-> T, c |-> c, cursor |-> c, out |-> <<>>]
    /\ disk = NoDisk
    /\ disc = NoDisc

\* one more call of getNextMessage on the same task state
NextCall ==
    /\ Len(rot.out) < MaxCalls
    /\ LET r == getNextMessage(rot.T, rot.cursor)
       IN rot' = [rot EXCEPT !.cursor = r.index, !.out = Append(@, r.message)]
    /\ UNCHANGED <<tasks, heap, sess, sent, stopAt, now, resp, disk, disc>>

RotSpec == InitRot /\ [][NextCall]_vars

(* ------------------ the durable file and the restart ------------------ *)
\* 24 * 60 * 60 * 1000 (line 50)
StaleWindow == 86400000

\* loadTasks keeping a record that is exactly StaleWindow old
isFreshInclusive(currentTime, task) == currentTime - task.lastUpdated <= StaleWindow

\* line 50
isFresh(currentTime, task) == currentTime - task.lastUpdated < StaleWindow

\* revive that leaves the defaults of the constructor in place
reviveDefaults(taskId, taskData) ==
    LET task == assign(PersistentAutomationState(taskId), [taskId |-> taskData.taskId,
                                                            lastUpdated |-> taskData.lastUpdated])
    IN [task EXCEPT !.lastUpdated = parseDate(@)]

\* lines 46-47: Object.assign(new PersistentAutomationState(taskId), taskData),
\* then lastUpdated made a Date again
revive(taskId, taskData) ==
    LET task == assign(PersistentAutomationState(taskId), taskData)
    IN [task EXCEPT !.lastUpdated = parseDate(@)]

\* the stored identifiers that loadTasks puts into the registry at currentTime
keptIds(savedTasks, currentTime) ==
    {taskId \in DOMAIN savedTasks : isFresh(currentTime, revive(taskId, savedTasks[taskId]))}

RECURSIVE entries(_)
\* Object.entries: the identifiers in the order of the file
entries(S) ==
    IF S = {} THEN <<>>
    ELSE LET x == CHOOSE x \in S : TRUE IN <<x>> \o entries(S \ {x})

\* a task object that no sendMessages activation works on
NoSession ==
    [pc |-> "none", browser |-> "null", messagesSent |-> 0, messagesList |-> <<>>,
     baseMessage |-> "", exit |-> "none", attempts |-> 0,
     flagWrites |-> 0, finalWrites |-> 0]

\* the state after construction with storage that accepts writes and holds
\* no file
PersistInit ==
    /\ tasks = << >>
    /\ heap = << >>
    /\ sess = << >>
    /\ sent = << >>
    /\ stopAt = << >>
    /\ now = 0
    /\ resp = NoResp
    /\ rot = NoRot
    /\ disk = [NoDisk EXCEPT !.writable = TRUE]
    /\ disc = NoDisc

\* one fs.writeFile completes (line 63): the file now holds its text.
\* Writes under way at the same time complete in any order; each is taken
\* to replace the content as a whole.
WriteDone(w) ==
    /\ w \in disk.pending
    /\ disk' = [disk EXCEPT !.file = w, !.pending = @ \ {w}]
    /\ UNCHANGED <<tasks, heap, sess, sent, stopAt, now, resp, rot, disc>>

\* times at which the next process starts
RestartTimes == {StaleWindow - 1, StaleWindow, StaleWindow + 1}

\* SIGINT or SIGTERM (lines 515-523): the handler awaits its own saveTasks
\* and exits; w is the write that reached the file last, the handler's or
\* one still under way.  Every session dies with the process.  Then the next
\* process is started at time t: its constructor starts loadTasks and does
\* not wait for it (lines 33-37).
Restart(w, t) ==
    /\ disk.restarts < MaxRestarts
    /\ w \in disk.pending \cup {Snapshot(tasks, heap)}
    /\ t >= now
    /\ disk' = [disk EXCEPT !.file = w, !.pending = {}, !.newest = w, !.load = "reading",
                            !.data = NoFile, !.boot = w, !.restarts = @ + 1]
    /\ tasks' = << >>
    /\ heap' = << >>
    /\ sess' = << >>
    /\ sent' = << >>
    /\ stopAt' = << >>
    /\ resp' = NoResp
    /\ now' = t
    /\ UNCHANGED <<rot, disc>>

\* fs.readFile has read the file (line 41)
ReadDone ==
    /\ disk.load = "reading"
    /\ disk' = [disk EXCEPT !.load = "read", !.data = disk.file]
    /\ UNCHANGED <<tasks, heap, sess, sent, stopAt, now, resp, rot, disc>>

\* the rest of loadTasks (lines 42-53): every record that is not too old is
\* revived into a new object and Map.set under its identifier; nothing is
\* saved and no session is started
LoadApply ==
    /\ disk.load = "read"
    /\ LET savedTasks == disk.data.json
           order == entries(keptIds(savedTasks, now))
           ref(taskId) == Len(heap) + CHOOSE i \in DOMAIN order : order[i] = taskId
       IN /\ heap' = heap \o [i \in DOMAIN order |-> revive(order[i], savedTasks[order[i]])]
          /\ tasks' = [taskId \in DOMAIN tasks \cup keptIds(savedTasks, now) |->
                          IF taskId \in keptIds(savedTasks, now)
                          THEN ref(taskId) ELSE tasks[taskId]]
          /\ sess' = sess \o [i \in DOMAIN order |-> NoSession]
          /\ sent' = sent \o [i \in DOMAIN order |-> <<>>]
          /\ stopAt' = stopAt \o [i \in DOMAIN order |-> NoStop]
    /\ disk' = [disk EXCEPT !.load = "done"]
    /\ UNCHANGED <<now, resp, rot, disc>>

\* no step is explored that leaves more than MaxPending writes under way
Capped == Cardinality(disk'.pending) <= MaxPending

\* one process with working storage: requests, sessions and file writes
SaveNext ==
    \/ \E h \in ClockDigests, config \in Configs : Start(h, config) /\ Capped
    \/ \E taskId \in ReqIds : Stop(taskId) /\ Capped
    \/ \E taskId \in ReqIds : ApiGetStatus(taskId) /\ Capped
    \/ \E s \in 1..MaxTasks : SessionStep(s) /\ Capped
    \/ \E w \in disk.pending : WriteDone(w)

SaveSpec == PersistInit /\ [][SaveNext]_vars

\* the same over a restart, with the load of the next process
RestartNext ==
    \/ \E h \in ClockDigests, config \in Configs : Start(h, config) /\ Capped
    \/ \E taskId \in ReqIds : Stop(taskId) /\ Capped
    \/ \E taskId \in ReqIds : ApiGetStatus(taskId) /\ Capped
    \/ \E s \in 1..MaxTasks : SessionStep(s) /\ Capped
    \/ \E w \in disk.pending : WriteDone(w)
    \/ \E w \in disk.pending \cup {Snapshot(tasks, heap)}, t \in RestartTimes : Restart(w, t)
    \/ ReadDone
    \/ LoadApply

RestartSpec == PersistInit /\ [][RestartNext]_vars

\* a task as an earlier process left it in the file: started at time 0,
\* last touched at time t
storedTask(taskId, t) ==
    [taskId |-> taskId, running |-> TRUE, messageCount |-> 1, startTime |-> 0,
     config |-> [messages |-> <<" Hi", " ", "Bye">>, namePrefix |-> "Mr"],
     lastUpdated |-> t, processId |-> taskId, messageRotationIndex |-> 1]

StoredIdsAtBoot == {<<"R", "B">>, <<"R", "C">>}

\* the registries of the earlier process: any of the two tasks, each last
\* touched at one of the times 0..MaxTime
StoredRegistries ==
    UNION {[ids -> 0..MaxTime] : ids \in SUBSET StoredIdsAtBoot}

BootFile(reg) ==
    [json |-> [id \in DOMAIN reg |-> toJSON(storedTask(id, reg[id]))],
     orig |-> [id \in DOMAIN reg |-> storedTask(id, reg[id])]]

\* those with at most the one task, touched within the staleness window
FreshRegistries ==
    {reg \in StoredRegistries :
        DOMAIN reg \subseteq {<<"R", "B">>} /\ \A id \in DOMAIN reg : reg[id] = MaxTime}

\* a process constructed at time StaleWindow + 1 over the file of an
\* earlier process: loadTasks is under way (lines 33-37), and the stored
\* records are StaleWindow + 1, StaleWindow or StaleWindow - 1 old
Booted(regs) ==
    /\ tasks = << >>
    /\ heap = << >>
    /\ sess = << >>
    /\ sent = << >>
    /\ stopAt = << >>
    /\ now = StaleWindow + 1
    /\ resp = NoResp
    /\ rot = NoRot
    /\ \E reg \in regs :
          disk = [NoDisk EXCEPT !.writable = TRUE, !.file = BootFile(reg),
                                !.boot = BootFile(reg), !.load = "reading"]
    /\ disc = NoDisc

\* requests, sessions and file writes while loadTasks is under way and after
BootNext ==
    \/ \E h \in ClockDigests, config \in Configs : Start(h, config) /\ Capped
    \/ \E taskId \in ReqIds : Stop(taskId) /\ Capped
    \/ \E taskId \in ReqIds : ApiGetStatus(taskId) /\ Capped
    \/ \E s \in 1..MaxTasks : SessionStep(s) /\ Capped
    \/ \E w \in disk.pending : WriteDone(w)
    \/ ReadDone
    \/ LoadApply

BootSpec == Booted(FreshRegistries) /\ [][BootNext]_vars

\* loadTasks on its own, over every stored registry, and the requests that
\* then address the recovered tasks
LoadNext ==
    \/ ReadDone
    \/ LoadApply
    \/ \E taskId \in StoredIdsAtBoot : Stop(taskId) /\ Capped
    \/ \E taskId \in StoredIdsAtBoot : ApiGetStatus(taskId) /\ Capped
    \/ \E w \in disk.pending : WriteDone(w)

LoadSpec == Booted(StoredRegistries) /\ [][LoadNext]_vars

(* ----------------------- Discovery on its own ------------------------- *)
\* An attribute text is a sequence of words; one word abbreviates a run of
\* characters, so `includes` is membership of a word.
Words == {"Message", "message", "Write", "write", "a", "reply", "Search", "search",
          "Type", "type"}

Lower ==
    [w \in Words |->
        CASE w = "Message" -> "message" [] w = "Write" -> "write"
          [] w = "Search" -> "search" [] w = "Type" -> "type" [] OTHER -> w]

toLowerCase(text) == [i \in DOMAIN text |-> Lower[text[i]]]

includes(text, word) == \E i \in DOMAIN text : text[i] = word

\* line 186
keywords == {"message", "write", "type", "send", "chat", "msg", "reply", "text", "aa"}

\* lines 187-189
hasKeyword(elementText) ==
    \E keyword \in keywords : includes(toLowerCase(elementText), keyword)

\* an element without attributes; an absent attribute is the empty text.
\* broken: evaluating a function on the element throws (a detached node)
Div ==
    [tagName |-> "DIV", contenteditable |-> FALSE, role |-> "", lexical |-> FALSE,
     spellcheck |-> FALSE, type |-> "", placeholder |-> <<>>, ariaLabel |-> <<>>,
     ariaPlaceholder |-> <<>>, dataPlaceholder |-> <<>>, broken |-> FALSE]

\* the kinds of element the documents are built from
Kinds ==
    { [Div EXCEPT !.contenteditable = TRUE, !.role = "textbox",
                  !.ariaLabel = <<"Message">>],
      [Div EXCEPT !.contenteditable = TRUE],
      [Div EXCEPT !.contenteditable = TRUE, !.ariaLabel = <<"Message">>],
      [Div EXCEPT !.ariaPlaceholder = <<"Type", "a", "message">>],
      [Div EXCEPT !.contenteditable = TRUE, !.spellcheck = TRUE,
                  !.ariaLabel = <<"Search">>],
      [Div EXCEPT !.tagName = "TEXTAREA"],
      [Div EXCEPT !.tagName = "TEXTAREA", !.placeholder = <<"Write", "a", "reply">>],
      [Div EXCEPT !.tagName = "INPUT", !.type = "text", !.placeholder = <<"Search">>],
      [Div EXCEPT !.tagName = "INPUT", !.type = "text",
                  !.placeholder = <<"Type", "a", "message">>] }

Elements == Kinds \cup {[el EXCEPT !.broken = TRUE] : el \in Kinds}

\* documents, in document order
Documents == UNION {[1..n -> Elements] : n \in 0..MaxDoc}

\* [attr*="message" i]
containsMessage(text) == includes(toLowerCase(text), "message")

\* messageInputSelectors[idx] (lines 139-152) applied to one element
Matches(idx, el) ==
    CASE idx = 0 -> el.tagName = "DIV" /\ el.contenteditable /\ el.role = "textbox"
      [] idx = 1 -> el.tagName = "DIV" /\ el.contenteditable /\ el.lexical
      [] idx = 2 -> el.tagName = "DIV" /\ containsMessage(el.ariaLabel) /\ el.contenteditable
      [] idx = 3 -> el.tagName = "DIV" /\ containsMessage(el.ariaLabel) /\ el.contenteditable
      [] idx = 4 -> el.tagName = "DIV" /\ el.contenteditable /\ el.spellcheck
      [] idx = 5 -> el.role = "textbox" /\ el.contenteditable
      [] idx = 6 -> el.tagName = "TEXTAREA" /\ containsMessage(el.placeholder)
      [] idx = 7 -> el.tagName = "DIV" /\ containsMessage(el.ariaPlaceholder)
      [] idx = 8 -> el.tagName = "DIV" /\ containsMessage(el.dataPlaceholder)
      [] idx = 9 -> el.contenteditable
      [] idx = 10 -> el.tagName = "TEXTAREA"
      [] idx = 11 -> el.tagName = "INPUT" /\ el.type = "text"

NumSelectors == 12

\* the three selectors named at line 197
GenericSelectors == {9, 10, 11}

RECURSIVE matching(_, _, _)
\* page.$$(selector): the positions of the matching elements from k on
matching(doc, idx, k) ==
    IF k > Len(doc) THEN <<>>
    ELSE IF Matches(idx, doc[k]) THEN <<k>> \o matching(doc, idx, k + 1)
         ELSE matching(doc, idx, k + 1)

\* lines 163-167
isEditable(el) ==
    el.contenteditable \/ el.tagName = "TEXTAREA" \/ el.tagName = "INPUT"

\* lines 180-184: el.placeholder is a property of TEXTAREA and INPUT only
elementText(el) ==
    IF el.tagName \in {"TEXTAREA", "INPUT"} /\ el.placeholder # <<>> THEN el.placeholder
    ELSE IF el.ariaLabel # <<>> THEN el.ariaLabel
    ELSE el.ariaPlaceholder

\* accepts returning only an element whose hint text has a keyword
acceptsKeywordOnly(idx, el) == hasKeyword(elementText(el))

\* lines 191-200: whether the editable element is returned
accepts(idx, el) ==
    IF hasKeyword(elementText(el)) THEN TRUE
    ELSE IF idx < 10 THEN TRUE
    ELSE idx \in GenericSelectors

RECURSIVE firstAccepted(_, _, _)
\* the inner loop (lines 162-205) over the elements a selector found: the
\* position of the element returned, 0 when the loop ends without one
firstAccepted(doc, idx, els) ==
    IF els = <<>> THEN 0
    ELSE IF ~doc[Head(els)].broken /\ isEditable(doc[Head(els)])
            /\ accepts(idx, doc[Head(els)])
         THEN Head(els)
         ELSE firstAccepted(doc, idx, Tail(els))

RECURSIVE scanFrom(_, _)
\* the outer loop (lines 156-209) from selector idx on, every page.$$
\* resolving
scanFrom(doc, idx) ==
    IF idx = NumSelectors THEN 0
    ELSE LET k == firstAccepted(doc, idx, matching(doc, idx, 1))
         IN IF k # 0 THEN k ELSE scanFrom(doc, idx + 1)

\* findMessageInput(page) as a function of the document: the position of
\* the element returned, 0 for null
findMessageInput(doc) == scanFrom(doc, 0)

InitDisc ==
    /\ tasks = << >>
    /\ heap = << >>
    /\ sess = << >>
    /\ sent = << >>
    /\ stopAt = << >>
    /\ now = 0
    /\ resp = NoResp
    /\ rot = NoRot
    /\ disk = NoDisk
    /\ \E doc \in Documents :
          disc = [doc |-> doc, idx |-> 0, phase |-> "query", elements |-> <<>>,
                  result |-> 0, failed |-> FALSE]

\* page.$$(selector) resolves (line 159) or rejects (lines 206-208);
\* disc.failed remembers that some call of the scan threw
Query ==
    /\ disc.phase = "query"
    /\ disc.idx < NumSelectors
    /\ \E ok \in BOOLEAN :
          disc' = IF ok
                  THEN [disc EXCEPT !.phase = "check",
                                    !.elements = matching(disc.doc, disc.idx, 1)]
                  ELSE [disc EXCEPT !.idx = @ + 1, !.failed = TRUE]
    /\ UNCHANGED <<tasks, heap, sess, sent, stopAt, now, resp, rot, disk>>

\* one round of the inner loop (lines 162-205), or its end
Check ==
    /\ disc.phase = "check"
    /\ disc' =
          IF disc.elements = <<>>
          THEN [disc EXCEPT !.phase = "query", !.idx = @ + 1]
          ELSE LET k == Head(disc.elements)
                   el == disc.doc[k]
               IN IF el.broken
                  THEN [disc EXCEPT !.elements = Tail(@), !.failed = TRUE]
                  ELSE IF isEditable(el) /\ accepts(disc.idx, el)
                       THEN [disc EXCEPT !.phase = "returned", !.result = k]
                       ELSE [disc EXCEPT !.elements = Tail(@)]
    /\ UNCHANGED <<tasks, heap, sess, sent, stopAt, now, resp, rot, disk>>

\* every selector tried: return null (line 224)
ReturnNull ==
    /\ disc.phase = "query"
    /\ disc.idx = NumSelectors
    /\ disc' = [disc EXCEPT !.phase = "null"]
    /\ UNCHANGED <<tasks, heap, sess, sent, stopAt, now, resp, rot, disk>>

DiscNext == Query \/ Check \/ ReturnNull

DiscSpec == InitDisc /\ [][DiscNext]_vars

(* ============================ properties ============================== *)
Sending == {"submitting", "delay", "recover"}

\* the registry's view of the task that session s works on
Registered(s) == heap[tasks[heap[s].taskId]]

\* C1: once Stop has hit a task, the registry shows running = false, the
\* task's messageCount exceeds its value at the time of Stop by at most one,
\* and only when a submission was in progress at that time; a submission in
\* progress after Stop is that same one (no new submission is started).
StopBoundsCount ==
    \A s \in Sessions :
        stopAt[s] # NoStop =>
            /\ ~Registered(s).running
            /\ Registered(s).messageCount
                  <= stopAt[s].count + (IF stopAt[s].inflight THEN 1 ELSE 0)
            /\ sess[s].pc = "submitting" =>
                  /\ stopAt[s].inflight
                  /\ Registered(s).messageCount = stopAt[s].count

\* C1 witness: Stop arrived mid-submission, that submission was still
\* counted, and the session has finished
StopMidSubmissionCounted ==
    \E s \in Sessions :
        /\ stopAt[s] # NoStop
        /\ stopAt[s].inflight
        /\ Registered(s).messageCount = stopAt[s].count + 1
        /\ sess[s].pc = "done"

\* C2: (LiveSpec) a session in the sending loop whose flag is false
\* eventually leaves the loop, has attempted to close its browser and is
\* done with running = false in the registry.
CancelLive ==
    \A s \in 1..MaxTasks :
        (s \in Sessions /\ sess[s].pc \in Sending /\ ~heap[s].running)
            ~> (/\ s \in Sessions
                /\ sess[s].pc = "done"
                /\ sess[s].exit = "stopped"
                /\ sess[s].browser \in {"closed", "closeFailed"}
                /\ ~Registered(s).running)

\* C2 witness: a session stopped during its delay (nothing in flight) that
\* left the loop and closed its browser
StoppedAndClosed ==
    \E s \in Sessions :
        /\ stopAt[s] # NoStop
        /\ ~stopAt[s].inflight
        /\ stopAt[s].count > 0
        /\ sess[s].pc = "done"
        /\ sess[s].exit = "stopped"
        /\ sess[s].browser = "closed"

\* C3: a task whose running is false stays in the registry with running
\* false in every later state; a task enters the registry with running true.
RunningOneWay ==
    [][/\ \A id \in DOMAIN tasks :
             ~heap[tasks[id]].running =>
                 (id \in DOMAIN tasks' /\ ~heap'[tasks'[id]].running)
       /\ \A id \in DOMAIN tasks' \ DOMAIN tasks : heap'[tasks'[id]].running]_vars

\* C3 witness: a session that failed during setup after its task had
\* been stopped
StoppedThenFailed ==
    \E s \in Sessions :
        /\ stopAt[s] # NoStop
        /\ sess[s].exit = "fatal"
        /\ sess[s].pc = "done"

\* C4: in every state the registry's messageCount of a task is the number of
\* submissions its session has completed, and no step decreases it.
CountIsCompleted ==
    [][\A s \in DOMAIN heap' :
          /\ heap'[tasks'[heap'[s].taskId]].messageCount = Len(sent'[s])
          /\ s \in DOMAIN heap => heap'[s].messageCount >= heap[s].messageCount]_vars

\* C4 witness: a session that completed two submissions and wrote its
\* final update
TwoCountedAndDone ==
    \E s \in Sessions :
        /\ sess[s].pc = "done"
        /\ Len(sent[s]) = 2
        /\ Registered(s).messageCount = 2

\* C5 (the claim as stated): outside a submission attempt the rotation
\* cursor equals the number of messages dispatched, so a failed attempt
\* leaves it where it was.
FailureKeepsCursor ==
    \A s \in Sessions :
        sess[s].pc \in {"delay", "recover", "closing", "done"} =>
            heap[s].messageRotationIndex = Len(sent[s])

EmptyListKeepsCursor ==
    \A s \in Sessions :
        filterNonBlank([i \in DOMAIN heap[s].config.messages |->
                           trim(heap[s].config.messages[i])]) = <<>> =>
            /\ heap[s].messageRotationIndex = 0
            /\ \A i \in 1..Len(sent[s]) : sent[s][i] = <<"Hello!">>

\* C8 (the claim as stated): a Poll whose identifier equals a registry
\* identifier up to letter case answers with that task's status and
\* identifier.
PollIgnoresCase ==
    [][\A req \in ReqIds : \A tid \in DOMAIN tasks :
          (toUpperCase(req) = toUpperCase(tid) /\ ApiGetStatus(req)) =>
              /\ resp'.code = 200
              /\ resp'.status = (IF heap[tasks[tid]].running THEN "running" ELSE "stopped")
              /\ resp'.task_id = tid]_vars

\* C9: (ClockSpec) Stop or Poll with an identifier that is not a registry key
\* answers not-found and changes neither the registry nor any task object
\* nor any session; the status page does the same when no key matches even
\* ignoring case.  (Only a step that answers a stop, poll or page request
\* can be such a step.)
UnknownIdNoEffect ==
    [][resp'.op \in {"stop", "poll", "page"} =>
          \A req \in ReqIds :
             /\ (req \notin DOMAIN tasks /\ (Stop(req) \/ ApiGetStatus(req))) =>
                   /\ resp'.code = 404
                   /\ tasks' = tasks /\ heap' = heap /\ sess' = sess /\ sent' = sent
             /\ ((\A tid \in DOMAIN tasks : toUpperCase(tid) # toUpperCase(req))
                    /\ StatusPage(req)) =>
                   /\ resp'.code = 404
                   /\ tasks' = tasks /\ heap' = heap /\ sess' = sess /\ sent' = sent]_vars

\* C9 witness: a not-found answer while a task that was last touched before
\* the current instant is running in its sending loop
NotFoundWhileRunning ==
    /\ resp.op \in {"stop", "poll"}
    /\ resp.code = 404
    /\ \E s \in Sessions :
          /\ heap[s].running
          /\ heap[s].lastUpdated < now
          /\ sess[s].pc \in Sending

\* C10: a session whose setup failed or whose input was not found has
\* attempted no submission, is past the loop, and its task has running =
\* false and messageCount = 0 in the registry, so that Poll answers stopped.
FatalNeverSends ==
    \A s \in Sessions :
        sess[s].exit \in {"fatal", "notfound"} =>
            /\ sess[s].pc \in {"closing", "done"}
            /\ sess[s].attempts = 0
            /\ sent[s] = <<>>
            /\ ~Registered(s).running
            /\ Registered(s).messageCount = 0
            /\ ApiStatusResp(heap[s].taskId).code = 200
            /\ ApiStatusResp(heap[s].taskId).status = "stopped"

\* C10 witness: the input was not found, the session is done, and a Poll
\* has just answered stopped for a task that no Stop ever hit
NotFoundPolledStopped ==
    \E s \in Sessions :
        /\ sess[s].exit = "notfound"
        /\ sess[s].pc = "done"
        /\ stopAt[s] = NoStop
        /\ resp = [op |-> "poll", code |-> 200, status |-> "stopped",
                   task_id |-> heap[s].taskId]


\* C15 (the claim as stated): a finished session attempted to release its
\* browser and issued exactly one registry update carrying running = false.
OneFlagWrite ==
    \A s \in Sessions :
        sess[s].pc = "done" =>
            /\ sess[s].browser # "open"
            /\ sess[s].flagWrites = 1

\* C15 (amended): the final update (running = false together with
\* messageCount) is issued exactly once per session, on every exit path, and
\* not before the release of the browser was attempted; the setup-failure and
\* not-found exits issue one more update carrying running = false before it.
OneFinalWrite ==
    \A s \in Sessions :
        /\ sess[s].pc # "done" => sess[s].finalWrites = 0
        /\ sess[s].pc = "done" =>
              /\ sess[s].finalWrites = 1
              /\ sess[s].browser # "open"
              /\ sess[s].flagWrites =
                    (IF sess[s].exit \in {"fatal", "notfound"} THEN 2 ELSE 1)

\* C15 witness: one session done on each of the three exit paths is more
\* than two tasks allow; a not-found exit next to a normal stop
NotFoundAndStoppedDone ==
    \E a, b \in Sessions :
        /\ sess[a].pc = "done" /\ sess[a].exit = "notfound" /\ sess[a].flagWrites = 2
        /\ sess[b].pc = "done" /\ sess[b].exit = "stopped" /\ sess[b].flagWrites = 1

\* C16: a failed submission leaves running and messageCount alone and the
\* session in the loop; a session leaves the loop only with running = false
\* set by a Stop of its task, so a session that is never stopped stays in it.
SoftFailureStays ==
    [][\A s \in Sessions :
          /\ sess[s].pc = "submitting" => sess'[s].pc \in Sending
          /\ (sess[s].pc = "submitting" /\ sess'[s].pc = "recover") =>
                /\ heap'[s].running = heap[s].running
                /\ heap'[s].messageCount = heap[s].messageCount
                /\ sess'[s].exit = "none"
          /\ (sess[s].pc \in Sending /\ sess'[s].pc \notin Sending) =>
                /\ stopAt[s] # NoStop
                /\ ~heap[s].running
                /\ sess'[s].pc = "closing"
                /\ sess'[s].exit = "stopped"]_vars

\* C16 witness: two failures in a row, nothing counted, still running
FailedTwiceStillRunning ==
    \E s \in Sessions :
        /\ sess[s].attempts = 2
        /\ sess[s].pc = "recover"
        /\ sent[s] = <<>>
        /\ heap[s].messageCount = 0
        /\ heap[s].running

\* C17: a task's messageCount and messageRotationIndex change only in a step
\* of its own session, and its running changes only in such a step or in the
\* Stop that hits it: no step of another session and no request for another
\* task touches them.
SessionIsolation ==
    [][\A s \in Sessions :
          /\ sess'[s] = sess[s] =>
                /\ heap'[s].messageCount = heap[s].messageCount
                /\ heap'[s].messageRotationIndex = heap[s].messageRotationIndex
          /\ (sess'[s] = sess[s] /\ stopAt'[s] = stopAt[s]) =>
                heap'[s].running = heap[s].running]_vars

\* C17 witness: one task stopped and done, the other still running in its
\* loop, both with a message counted
OneStoppedOtherRunning ==
    \E a, b \in Sessions :
        /\ a # b
        /\ stopAt[a] # NoStop /\ sess[a].pc = "done" /\ heap[a].messageCount > 0
        /\ stopAt[b] = NoStop /\ heap[b].running /\ sess[b].pc \in Sending
        /\ heap[b].messageCount > 0


\* C11: every Start inserts its task under an identifier that was not a key
\* of the registry: the registry grows by one, no existing record is
\* replaced, and no two sessions work under the same taskId.
StartNeverReuses ==
    [][Len(heap') > Len(heap) =>
          /\ Cardinality(DOMAIN tasks') = Cardinality(DOMAIN tasks) + 1
          /\ \A id \in DOMAIN tasks : tasks'[id] = tasks[id]
          /\ \A a, b \in 1..Len(heap') : a # b => heap'[a].taskId # heap'[b].taskId]_vars


\* C14: when Discovery returns an element found by one of the late generic
\* patterns whose hint text has no keyword, the document holds no
\* interactive element matched by an earlier pattern and no interactive
\* element whose hint text has a keyword.
LateFallbackIsLastResort ==
    (/\ disc.phase = "returned"
     /\ disc.idx \in GenericSelectors
     /\ ~hasKeyword(elementText(disc.doc[disc.result])))
    => \A k \in DOMAIN disc.doc :
          isEditable(disc.doc[k]) =>
              /\ \A j \in 0..(disc.idx - 1) : ~Matches(j, disc.doc[k])
              /\ ~hasKeyword(elementText(disc.doc[k]))


\* the step in which loadTasks puts the records it read into the registry
LoadStep == disk.load = "read" /\ disk'.load = "done"

\* how long before the load the stored record was last touched
AgeAtLoad(file, id) == now - file.orig[id].lastUpdated

\* C12: after loadTasks, a stored record is in the registry if and only if
\* it was last touched less than StaleWindow before the load; a record
\* exactly StaleWindow old is discarded.
StalenessLaw ==
    [][LoadStep =>
          \A id \in DOMAIN disk.data.json :
              (id \in DOMAIN tasks' /\ tasks'[id] > Len(heap))
                  <=> AgeAtLoad(disk.data, id) < StaleWindow]_vars

\* C12 witness: a load that dropped a record exactly StaleWindow old and
\* kept one a millisecond younger
BoundaryDroppedYoungerKept ==
    /\ disk.load = "done"
    /\ \E a, b \in DOMAIN disk.boot.json :
          /\ AgeAtLoad(disk.boot, a) = StaleWindow /\ a \notin DOMAIN tasks
          /\ AgeAtLoad(disk.boot, b) = StaleWindow - 1 /\ b \in DOMAIN tasks

\* the fields the round trip is to preserve
RoundTripFields ==
    {"taskId", "running", "messageCount", "startTime", "config", "processId",
     "messageRotationIndex"}

RunningHasSession ==
    \A id \in DOMAIN tasks :
        heap[tasks[id]].running => sess[tasks[id]].pc \notin {"none", "done"}

\* C19: a task that the file held when the process started, and that is
\* not too old, is in the registry once loadTasks is over, and in the file
\* once the writes under way are over as well.
BootTasksSurvive ==
    \A id \in DOMAIN disk.boot.json :
        AgeAtLoad(disk.boot, id) < StaleWindow =>
            /\ disk.load = "done" => id \in DOMAIN tasks
            /\ (disk.load = "done" /\ disk.pending = {}) => id \in DOMAIN disk.file.json

\* every session is over and no write is under way
Quiescent ==
    /\ \A s \in Sessions : sess[s].pc = "done"
    /\ disk.pending = {}

\* the file holds the tasks of the registry with their running,
\* messageCount and messageRotationIndex
FileAgrees ==
    /\ DOMAIN disk.file.json = DOMAIN tasks
    /\ \A id \in DOMAIN tasks :
          \A f \in {"running", "messageCount", "messageRotationIndex"} :
              disk.file.json[id][f] = heap[tasks[id]][f]

\* C20 (the claim as stated): at quiescence the file agrees with the
\* registry, whatever order the writes completed in.
QuiescentFileAgrees == Quiescent => FileAgrees

\* C20 (amended): at quiescence the file agrees with the registry if it
\* holds the text of the save that was started last.
QuiescentNewestAgrees == (Quiescent /\ disk.file = disk.newest) => FileAgrees

\* C20 witness: a stopped task with a message counted, every write over,
\* the file holding the text of the last save
StoppedAndSaved ==
    /\ Quiescent
    /\ disk.file = disk.newest
    /\ \E id \in DOMAIN tasks :
          /\ heap[tasks[id]].messageCount > 0
          /\ ~disk.file.json[id].running
          /\ stopAt[tasks[id]] # NoStop


\* a scan that is over and in which no call threw, on a document whose
\* elements can all be evaluated
CleanScanOver ==
    /\ disc.phase \in {"returned", "null"}
    /\ ~disc.failed
    /\ \A k \in DOMAIN disc.doc : ~disc.doc[k].broken

\* the position Discovery returned, 0 for not-found
Outcome == IF disc.phase = "returned" THEN disc.result ELSE 0

\* the (pattern, position) pairs of the interactive elements a pattern matches
Candidates(doc) ==
    {c \in (0..(NumSelectors - 1)) \X DOMAIN doc :
        Matches(c[1], doc[c[2]]) /\ isEditable(doc[c[2]])}

\* (pattern, then document) order
Before(c, d) == c[1] < d[1] \/ (c[1] = d[1] /\ c[2] <= d[2])

\* the hint attributes of an element
HintFields == {"placeholder", "ariaLabel", "ariaPlaceholder"}

\* two documents that differ at most in the hint texts of their elements
SameButHints(doc, other) ==
    /\ Len(other) = Len(doc)
    /\ \A k \in DOMAIN doc :
          \A f \in DOMAIN doc[k] \ HintFields : other[k][f] = doc[k][f]

\* two documents whose elements are matched by the same patterns
SameMatches(doc, other) ==
    /\ Len(other) = Len(doc)
    /\ \A k \in DOMAIN doc :
          \A idx \in 0..(NumSelectors - 1) : Matches(idx, other[k]) = Matches(idx, doc[k])

\* Discovery returns the first interactive element in (pattern, document)
\* order, and not-found exactly when no pattern matches an interactive one
FirstInteractive ==
    /\ disc.phase = "returned" =>
          /\ <<disc.idx, disc.result>> \in Candidates(disc.doc)
          /\ \A c \in Candidates(disc.doc) : Before(<<disc.idx, disc.result>>, c)
    /\ disc.phase = "null" <=> Candidates(disc.doc) = {}

\* the acceptance policy never says `continue` for an interactive element
NeverContinues ==
    \A idx \in 0..(NumSelectors - 1), el \in Elements : isEditable(el) => accepts(idx, el)

\* C21 (the claim as stated): without errors Discovery returns the first
\* interactive element in (pattern, document) order, not-found exactly when
\* there is none, never continues past an interactive element, and returns
\* the same position for any two documents that differ only in hint texts.
ResultIgnoresHints ==
    CleanScanOver =>
        /\ FirstInteractive
        /\ NeverContinues
        /\ \A other \in Documents :
              SameButHints(disc.doc, other) => findMessageInput(other) = Outcome

\* C21 (amended): the same, with the last part for two documents that
\* differ only in hint texts and whose elements the same patterns match.
ResultIgnoresKeywords ==
    CleanScanOver =>
        /\ FirstInteractive
        /\ NeverContinues
        /\ findMessageInput(disc.doc) = Outcome
        /\ \A other \in Documents :
              (SameButHints(disc.doc, other) /\ SameMatches(disc.doc, other))
                  => findMessageInput(other) = Outcome

\* C21 witness: an element without a keyword was returned by a generic
\* pattern although a later interactive element has one, and a document
\* exists that differs from this one in a hint text only
KeywordElementPassedOver ==
    /\ CleanScanOver
    /\ disc.phase = "returned"
    /\ disc.idx \in GenericSelectors
    /\ ~hasKeyword(elementText(disc.doc[disc.result]))
    /\ \E k \in DOMAIN disc.doc :
          /\ k > disc.result
          /\ isEditable(disc.doc[k])
          /\ hasKeyword(elementText(disc.doc[k]))
    /\ \E other \in Documents :
          /\ other # disc.doc
          /\ SameButHints(disc.doc, other)
          /\ SameMatches(disc.doc, other)

====
